---- MODULE Spec2Model ----
(***************************************************************************)
(* A model of ncov_watch/ncov_watch.py: the two variant parsers, the key   *)
(* of a Variant, the watchlist index and the matching loop of main().      *)
(*                                                                         *)
(* Python strings are sequences of one-character strings, so that join,    *)
(* find, slicing and str() are computed character by character.  A Python  *)
(* value that may be a str, an int or None is a tagged record (PyStr,      *)
(* PyInt, PyNone).                                                         *)
(***************************************************************************)
EXTENDS Integers, Sequences, FiniteSets, TLC

VARIABLES
    \* ---- one run of main() ----
    pc,          \* "start", "loop", "done" (main returned), "exit" (the process died); "idle": no run
    watchfile,   \* the content of the bundled watchlist file
    inputs,      \* what gen_func() yields: a sequence of [path, file]
    watch_dict,  \* key -> name (a function whose domain is the set of keys)
    idx,         \* the number of inputs the loop has taken from gen_func()
    parser,      \* the parser the last iteration called: "none", "ivar", "vcf"
    variants,    \* the list the last iteration's parser returned
    out,         \* the rows written to the output, in order
    outSrc,      \* for each row of out, <<input index, variant index>> (<<0, 0>>: header)
    status,      \* the process's exit status
    \* ---- one call of a parser on one row or record ----
    line,        \* the row or record handed to the parser
    parsed       \* what the parser made of it

runVars == <<pc, watchfile, inputs, watch_dict, idx, parser, variants, out, outSrc, status>>
parseVars == <<line, parsed>>
vars == <<pc, watchfile, inputs, watch_dict, idx, parser, variants, out, outSrc, status,
          line, parsed>>

----------------------------------------------------------------------------
(* Bounds *)

\* The longest REF of a tabular row.
MaxRef == 1
\* The most bases after the '+' or '-' marker of a tabular ALT.
MaxBases == 2
\* The most inputs gen_func() yields in one run.
MaxInputs == 2

----------------------------------------------------------------------------
(* Python values *)

PyStr(s) == [t |-> "str", s |-> s, n |-> 0]
PyInt(n) == [t |-> "int", s |-> <<>>, n |-> n]
PyNone == [t |-> "None", s |-> <<>>, n |-> 0]

IsStr(x) == x.t = "str"

Digit(d) == <<"0", "1", "2", "3", "4", "5", "6", "7", "8", "9">>[d + 1]

\* str(n) of a non-negative int: its decimal digits, no leading zero.
RECURSIVE StrInt(_)
StrInt(n) == IF n < 10 THEN <<Digit(n)>> ELSE StrInt(n \div 10) \o <<Digit(n % 10)>>

\* str(x)
Str(x) ==
    CASE x.t = "str" -> x.s
      [] x.t = "int" -> StrInt(x.n)
      [] OTHER -> <<"N", "o", "n", "e">>

\* ",".join(parts)
RECURSIVE Join(_)
Join(parts) ==
    IF parts = <<>> THEN <<>>
    ELSE IF Len(parts) = 1 THEN parts[1]
    ELSE parts[1] \o <<",">> \o Join(Tail(parts))

\* s.find(sub) >= 0
Contains(s, sub) ==
    \E k \in 1..(Len(s) - Len(sub) + 1) : SubSeq(s, k, k + Len(sub) - 1) = sub

\* os.path.basename(p): what follows the last "/"
RECURSIVE Basename(_)
Basename(p) ==
    IF \E k \in 1..Len(p) : p[k] = "/"
    THEN Basename(SubSeq(p, (CHOOSE k \in 1..Len(p) : p[k] = "/") + 1, Len(p)))
    ELSE p

----------------------------------------------------------------------------
(* class Variant *)

Variant(contig, position, reference, alt) ==
    [contig |-> contig, position |-> position, reference |-> reference, alt |-> alt,
     name |-> PyNone]

NoVariant == Variant(PyNone, PyNone, PyNone, PyNone)

\* Variant.key()
key(v) == Join(<<Str(v.contig), Str(v.position), Str(v.reference), Str(v.alt)>>)

----------------------------------------------------------------------------
(* load_ivar_variants: one row *)

AllCols == {"REGION", "POS", "REF", "ALT"}

Raised == [raised |-> TRUE, v |-> NoVariant]

DeletionAllelesKeepAlt(ref, alt) ==
    [ref |-> ref \o Tail(alt), alt |-> Tail(alt)]

\* ref += alt[1:]; alt = ref[0]       (called with ref + alt[1:] non-empty)
DeletionAlleles(ref, alt) ==
    [ref |-> ref \o Tail(alt), alt |-> <<(ref \o Tail(alt))[1]>>]

InsertionAllelesDropRef(ref, alt) ==
    [ref |-> ref, alt |-> Tail(alt)]

\* alt = ref + alt[1:]
InsertionAlleles(ref, alt) ==
    [ref |-> ref, alt |-> ref \o Tail(alt)]

\* Variant(record["REGION"], record["POS"], ref, alt): a KeyError when the header
\* has no such column.
IvarVariant(cols, row, ref, alt) ==
    IF "REGION" \notin cols \/ "POS" \notin cols THEN Raised
    ELSE [raised |-> FALSE, v |-> Variant(row.REGION, row.POS, ref, alt)]

\* The body of the loop over the reader's records.  A value of a short row is
\* None (csv.DictReader's restval); indexing or slicing None is a TypeError,
\* indexing an empty str an IndexError.
IvarRow(cols, row) ==
    IF "REF" \notin cols \/ "ALT" \notin cols THEN Raised
    ELSE IF ~IsStr(row.ALT) \/ row.ALT.s = <<>> THEN Raised
    ELSE IF row.ALT.s[1] = "-"
         THEN IF ~IsStr(row.REF) \/ row.REF.s \o Tail(row.ALT.s) = <<>> THEN Raised
              ELSE LET a == DeletionAlleles(row.REF.s, row.ALT.s)
                   IN  IvarVariant(cols, row, PyStr(a.ref), PyStr(a.alt))
    ELSE IF row.ALT.s[1] = "+"
         THEN IF ~IsStr(row.REF) THEN Raised
              ELSE LET a == InsertionAlleles(row.REF.s, row.ALT.s)
                   IN  IvarVariant(cols, row, PyStr(a.ref), PyStr(a.alt))
    ELSE IvarVariant(cols, row, row.REF, row.ALT)

----------------------------------------------------------------------------
(* load_vcf: one record *)

Fatal == [fatal |-> TRUE, v |-> NoVariant]

\* record.alts is a tuple of the alternate alleles, or None when the record has
\* none: alts = <<>> stands for None, and len(None) is an uncaught TypeError.
VcfRecord(rec) ==
    IF rec.alts = <<>> THEN Fatal
    ELSE IF Len(rec.alts) > 1 THEN Fatal
    ELSE [fatal |-> FALSE,
          v |-> [Variant(PyStr(rec.chrom), PyInt(rec.pos), PyStr(rec.ref),
                         PyStr(rec.alts[1])) EXCEPT !.name = rec.name]]

----------------------------------------------------------------------------
(* The rows and records a parser is called on *)

Bases == {"A", "T"}

\* The strings over Bases of at most n characters.
BaseStr(n) == UNION {[1..k -> Bases] : k \in 0..n}

Positions == {1, 10}

\* The text of a POS cell: a position as str() prints it, the same with a
\* leading zero, and a cell holding the delimiter of the key.
PosTexts ==
    {StrInt(n) : n \in Positions} \cup {<<"0">> \o StrInt(n) : n \in Positions}
        \cup {<<"1", ",", "1">>}

Regions == {<<"c">>, <<"c", ",", "1">>}

AltTexts ==
    {<<m>> \o s : m \in {"+", "-"}, s \in BaseStr(MaxBases)} \cup BaseStr(MaxBases)

OrNone(S) == {PyStr(s) : s \in S} \cup {PyNone}

TsvRows ==
    [REGION : OrNone(Regions), POS : OrNone(PosTexts), REF : OrNone(BaseStr(MaxRef)),
     ALT : OrNone(AltTexts)]

ColSets == {AllCols} \cup {AllCols \ {c} : c \in AllCols}

\* A VCF allele is never empty.
Alleles == BaseStr(MaxBases + 1) \ {<<>>}

VcfRecs ==
    [chrom : {<<"c">>, <<"d">>}, pos : Positions, ref : Alleles,
     alts : {<<>>} \cup {<<a>> : a \in Alleles}
                   \cup {<<a, b>> : a \in {<<"T">>}, b \in {<<"A">>, <<"T", "T">>}},
     name : {PyNone, PyStr(<<"S", "1">>)}]

NoRow == [REGION |-> PyNone, POS |-> PyNone, REF |-> PyNone, ALT |-> PyNone]
NoRec == [chrom |-> <<>>, pos |-> 0, ref |-> <<>>, alts |-> <<>>, name |-> PyNone]
NoLine == [fmt |-> "none", cols |-> {}, row |-> NoRow, rec |-> NoRec]

Lines ==
    {[fmt |-> "tsv", cols |-> c, row |-> r, rec |-> NoRec] : c \in ColSets, r \in TsvRows}
        \cup {[fmt |-> "vcf", cols |-> {}, row |-> NoRow, rec |-> r] : r \in VcfRecs}

Pending == [state |-> "pending", v |-> NoVariant]

\* load_ivar_variants reaches a row of the reader.
ParseTabularRow ==
    /\ line.fmt = "tsv"
    /\ parsed.state = "pending"
    /\ LET r == IvarRow(line.cols, line.row)
       IN  parsed' = [state |-> IF r.raised THEN "raised" ELSE "variant", v |-> r.v]
    /\ UNCHANGED <<line, runVars>>

\* load_vcf reaches a record of the file.
ParseStandardRecord ==
    /\ line.fmt = "vcf"
    /\ parsed.state = "pending"
    /\ LET r == VcfRecord(line.rec)
       IN  parsed' = [state |-> IF r.fatal THEN "fatal" ELSE "variant", v |-> r.v]
    /\ UNCHANGED <<line, runVars>>

----------------------------------------------------------------------------
(* load_ivar_variants and load_vcf: one file *)

\* A file: a tab-separated table (its header's columns and its rows), a VCF (its
\* records), or "absent": a path that cannot be opened.
TsvFile(cols, rows) == [kind |-> "tsv", cols |-> cols, rows |-> rows, records |-> <<>>]
VcfFile(records) == [kind |-> "vcf", cols |-> {}, rows |-> <<>>, records |-> records]
AbsentFile == [kind |-> "absent", cols |-> {}, rows |-> <<>>, records |-> <<>>]

\* What csv.DictReader makes of a file: the columns of its first line and a row
\* for each further line.  A VCF read this way has the line "##fileformat=..." as
\* its header, and a row for its "#CHROM" line and for every record.
ReaderCols(file) == IF file.kind = "tsv" THEN file.cols ELSE {}
ReaderRows(file) ==
    IF file.kind = "tsv" THEN file.rows
    ELSE <<NoRow>> \o [k \in 1..Len(file.records) |-> NoRow]

\* for record in reader: ... variants.append(...), left at the first exception;
\* `variants` keeps what was appended before it.
RECURSIVE IvarRows(_, _, _)
IvarRows(cols, rows, acc) ==
    IF rows = <<>> THEN [raised |-> FALSE, variants |-> acc]
    ELSE LET r == IvarRow(cols, Head(rows))
         IN  IF r.raised THEN [raised |-> TRUE, variants |-> acc]
             ELSE IvarRows(cols, Tail(rows), Append(acc, r.v))

\* load_ivar_variants(filename).  `raised` tells whether the try block was left
\* by an exception; the caller does not see it.
load_ivar_variants(file) ==
    IF file.kind = "absent" THEN [raised |-> TRUE, variants |-> <<>>]
    ELSE IvarRows(ReaderCols(file), ReaderRows(file), <<>>)

RECURSIVE VcfRecords(_, _)
VcfRecords(records, acc) ==
    IF records = <<>> THEN [fatal |-> FALSE, variants |-> acc]
    ELSE LET r == VcfRecord(Head(records))
         IN  IF r.fatal THEN [fatal |-> TRUE, variants |-> <<>>]
             ELSE VcfRecords(Tail(records), Append(acc, r.v))

load_vcfSkipMultiAllelic(file) ==
    IF file.kind # "vcf" THEN [fatal |-> TRUE, variants |-> <<>>]
    ELSE VcfRecords(SelectSeq(file.records, LAMBDA r : Len(r.alts) = 1), <<>>)

\* load_vcf(filename).  pysam.VariantFile raises on a path that cannot be opened
\* and on a file that is no VCF; nothing catches it.
load_vcf(file) ==
    IF file.kind # "vcf" THEN [fatal |-> TRUE, variants |-> <<>>]
    ELSE VcfRecords(file.records, <<>>)

----------------------------------------------------------------------------
(* main *)

variants_tsv == <<"v", "a", "r", "i", "a", "n", "t", "s", ".", "t", "s", "v">>

not_annotated == <<"n", "o", "t", " ", "a", "n", "n", "o", "t", "a", "t", "e", "d">>

Header ==
    <<PyStr(<<"s", "a", "m", "p", "l", "e">>),
      PyStr(<<"m", "u", "t", "a", "t", "i", "o", "n">>),
      PyStr(<<"c", "o", "n", "t", "i", "g">>),
      PyStr(<<"p", "o", "s", "i", "t", "i", "o", "n">>),
      PyStr(<<"r", "e", "f", "e", "r", "e", "n", "c", "e">>),
      PyStr(<<"a", "l", "t">>)>>

\* {v.key(): v.name for v in watch_variants}: of two entries with one key the
\* later one's name stays.
WatchDict(vs) ==
    [k \in {key(vs[j]) : j \in 1..Len(vs)} |->
        LET last == CHOOSE j \in 1..Len(vs) :
                        /\ key(vs[j]) = k
                        /\ \A m \in (j + 1)..Len(vs) : key(vs[m]) # k
        IN  vs[last].name]

\* f.find("variants.tsv") >= 0
IsTabularName(path) == Contains(path, variants_tsv)

TabularOutcomeReraise(r) == [fatal |-> r.raised, variants |-> r.variants]

\* except: pass; return variants
TabularOutcome(r) == [fatal |-> FALSE, variants |-> r.variants]

MatchKeepNone(path, v, wd) ==
    IF key(v) \in DOMAIN wd
    THEN <<<<PyStr(Basename(path)), wd[key(v)], v.contig, PyStr(Str(v.position)),
             v.reference, v.alt>>>>
    ELSE <<>>

\* The body of "for v in variants": the rows written for v, one or none.
Match(path, v, wd) ==
    IF key(v) \in DOMAIN wd
    THEN LET name == IF wd[key(v)] = PyNone THEN PyStr(not_annotated) ELSE wd[key(v)]
         IN  <<<<PyStr(Basename(path)), name, v.contig, PyStr(Str(v.position)),
                 v.reference, v.alt>>>>
    ELSE <<>>

RECURSIVE MatchFrom(_, _, _, _, _)
MatchFrom(path, vs, wd, fi, n) ==
    IF n > Len(vs) THEN <<>>
    ELSE [k \in 1..Len(Match(path, vs[n], wd)) |->
             [row |-> Match(path, vs[n], wd)[k], src |-> <<fi, n>>]]
         \o MatchFrom(path, vs, wd, fi, n + 1)

MatchRowsReversed(path, vs, wd, fi) ==
    LET m == MatchFrom(path, vs, wd, fi, 1)
    IN  [k \in 1..Len(m) |-> m[Len(m) + 1 - k]]

\* "for v in variants: ..." over the variants of input number fi: the rows
\* written, each with the variant it is written for.
MatchRows(path, vs, wd, fi) == MatchFrom(path, vs, wd, fi, 1)

Rows(m) == [k \in 1..Len(m) |-> m[k].row]
Srcs(m) == [k \in 1..Len(m) |-> m[k].src]

NoParse ==
    /\ line = NoLine
    /\ parsed = Pending

\* watch_variants = load_vcf(mutation_set); watch_dict = ...; the header row.
LoadWatchlist ==
    /\ pc = "start"
    /\ LET r == load_vcf(watchfile)
       IN  IF r.fatal
           THEN /\ pc' = "exit"
                /\ status' = 1
                /\ UNCHANGED <<watch_dict, out, outSrc>>
           ELSE /\ pc' = "loop"
                /\ watch_dict' = WatchDict(r.variants)
                /\ out' = <<Header>>
                /\ outSrc' = <<<<0, 0>>>>
                /\ UNCHANGED status
    /\ UNCHANGED <<watchfile, inputs, idx, parser, variants, parseVars>>

\* One iteration of "for f in gen_func()" whose f goes to load_ivar_variants.
\* The parser lets no exception out (TabularOutcome), so the iteration always
\* goes on to the matching.
ProcessTabular ==
    /\ pc = "loop"
    /\ idx < Len(inputs)
    /\ IsTabularName(inputs[idx + 1].path)
    /\ LET f == inputs[idx + 1]
           r == TabularOutcome(load_ivar_variants(f.file))
           m == MatchRows(f.path, r.variants, watch_dict, idx + 1)
       IN  /\ idx' = idx + 1
           /\ parser' = "ivar"
           /\ IF r.fatal
              THEN /\ pc' = "exit"
                   /\ status' = 1
                   /\ UNCHANGED <<variants, out, outSrc>>
              ELSE /\ variants' = r.variants
                   /\ out' = out \o Rows(m)
                   /\ outSrc' = outSrc \o Srcs(m)
                   /\ UNCHANGED <<pc, status>>
    /\ UNCHANGED <<watchfile, inputs, watch_dict, parseVars>>

\* One iteration of "for f in gen_func()" whose f goes to load_vcf.
ProcessStandard ==
    /\ pc = "loop"
    /\ idx < Len(inputs)
    /\ ~IsTabularName(inputs[idx + 1].path)
    /\ LET f == inputs[idx + 1]
           r == load_vcf(f.file)
           m == MatchRows(f.path, r.variants, watch_dict, idx + 1)
       IN  /\ idx' = idx + 1
           /\ parser' = "vcf"
           /\ IF r.fatal
              THEN /\ pc' = "exit"
                   /\ status' = 1
                   /\ UNCHANGED <<variants, out, outSrc>>
              ELSE /\ variants' = r.variants
                   /\ out' = out \o Rows(m)
                   /\ outSrc' = outSrc \o Srcs(m)
                   /\ UNCHANGED <<pc, status>>
    /\ UNCHANGED <<watchfile, inputs, watch_dict, parseVars>>

\* gen_func() is exhausted: main returns.
Finish ==
    /\ pc = "loop"
    /\ idx = Len(inputs)
    /\ pc' = "done"
    /\ UNCHANGED <<watchfile, inputs, watch_dict, idx, parser, variants, out, outSrc,
                   status, parseVars>>

----------------------------------------------------------------------------
(* The files of a run *)

C == <<"c">>
Row(region, pos, ref, alt) ==
    [REGION |-> PyStr(region), POS |-> PyStr(pos), REF |-> PyStr(ref), ALT |-> PyStr(alt)]
Rec(chrom, pos, ref, alts, name) ==
    [chrom |-> chrom, pos |-> pos, ref |-> ref, alts |-> alts, name |-> name]

SubRec == Rec(C, 10, <<"A">>, <<<<"T">>>>, PyStr(<<"S", "1">>))
SubRecUnnamed == Rec(C, 10, <<"A">>, <<<<"T">>>>, PyNone)
DelRec == Rec(C, 10, <<"A", "T", "A">>, <<<<"A">>>>, PyNone)
InsRec == Rec(C, 1, <<"A">>, <<<<"A", "T", "T">>>>, PyStr(<<"S", "2">>))
MissRec == Rec(C, 21, <<"A">>, <<<<"T">>>>, PyNone)
MultiRec == Rec(C, 10, <<"A">>, <<<<"T">>, <<"A", "T">>>>, PyNone)

SubRow == Row(C, <<"1", "0">>, <<"A">>, <<"T">>)
DelRow == Row(C, <<"1", "0">>, <<"A">>, <<"-", "T", "A">>)
InsRow == Row(C, <<"1">>, <<"A">>, <<"+", "T", "T">>)
MissRow == Row(C, <<"2", "1">>, <<"A">>, <<"T">>)
BadRow == Row(C, <<"1", "0">>, <<"A">>, <<>>)

WatchFiles ==
    {VcfFile(<<SubRec, DelRec, InsRec>>),
     VcfFile(<<SubRec, SubRecUnnamed>>),
     VcfFile(<<SubRec, MultiRec>>)}

Contents ==
    {TsvFile(AllCols, <<SubRow, MissRow, DelRow>>),
     TsvFile(AllCols, <<InsRow, BadRow, SubRow>>),
     TsvFile(AllCols \ {"REF"}, <<SubRow>>),
     TsvFile(AllCols, <<MissRow>>),
     AbsentFile,
     VcfFile(<<SubRec, DelRec>>),
     VcfFile(<<InsRec, MultiRec>>),
     VcfFile(<<MissRec>>)}

Paths ==
    {<<"a", ".", "v", "a", "r", "i", "a", "n", "t", "s", ".", "t", "s", "v">>,
     <<"d", "/", "b", ".", "p", "a", "s", "s", ".", "v", "c", "f">>,
     <<"v", "a", "r", "i", "a", "n", "t", "s", ".", "t", "s", "v", ".", "d", "/",
       "c", ".", "p", "a", "s", "s", ".", "v", "c", "f">>,
     <<"e", "_", "v", "a", "r", "i", "a", "n", "t", "s", ".", "t", "s", "v", ".",
       "b", "a", "k">>}

InputFiles == [path : Paths, file : Contents]

Init ==
    /\ pc = "start"
    /\ watchfile \in WatchFiles
    /\ inputs \in UNION {[1..n -> InputFiles] : n \in 0..MaxInputs}
    /\ watch_dict = <<>>
    /\ idx = 0
    /\ parser = "none"
    /\ variants = <<>>
    /\ out = <<>>
    /\ outSrc = <<>>
    /\ status = 0
    /\ NoParse

Next == LoadWatchlist \/ ProcessTabular \/ ProcessStandard \/ Finish

Spec == Init /\ [][Next]_vars

----------------------------------------------------------------------------
(* The specification of one parser call *)

RunIdle ==
    /\ pc = "idle"
    /\ watchfile = <<>>
    /\ inputs = <<>>
    /\ watch_dict = <<>>
    /\ idx = 0
    /\ parser = "none"
    /\ variants = <<>>
    /\ out = <<>>
    /\ outSrc = <<>>
    /\ status = 0

InitParse ==
    /\ line \in Lines
    /\ parsed = Pending
    /\ RunIdle

NextParse == ParseTabularRow \/ ParseStandardRecord

SpecParse == InitParse /\ [][NextParse]_vars

----------------------------------------------------------------------------
(* Claims about one parser call (SpecParse) *)

\* The row has the four columns and a text in each cell the parser reads.
FullRow ==
    /\ line.fmt = "tsv"
    /\ parsed.state # "pending"
    /\ line.cols = AllCols
    /\ IsStr(line.row.REF)
    /\ IsStr(line.row.ALT)

Marked(m) == line.row.ALT.s # <<>> /\ line.row.ALT.s[1] = m

\* The Variant load_vcf makes of the record (chrom, pos, ref, alt).
StandardVariant(chrom, pos, ref, alt) == VcfRecord(Rec(chrom, pos, ref, <<alt>>, PyNone)).v

\* The standard-format Variants (REGION, POS, ref, alt) of the row: those whose
\* position prints as the row's POS cell.
SameKeyAsStandard(ref, alt) ==
    (IsStr(line.row.REGION) /\ IsStr(line.row.POS)) =>
        \A n \in Positions :
            line.row.POS.s = StrInt(n) =>
                key(parsed.v) = key(StandardVariant(line.row.REGION.s, n, ref, alt))

\* C1: a tabular row whose ALT begins with '-' and whose REF is not empty yields a
\* Variant whose reference is REF followed by the rest of ALT and whose alt is the
\* first base of that reference, with the key of the standard-format Variant
\* (REGION, POS, REF + deleted bases, first base of REF).
C1_DeletionReconciled ==
    (FullRow /\ Marked("-") /\ line.row.REF.s # <<>>) =>
        LET REF == line.row.REF.s
            rest == SubSeq(line.row.ALT.s, 2, Len(line.row.ALT.s))
        IN  /\ parsed.state = "variant"
            /\ parsed.v.reference = PyStr(REF \o rest)
            /\ parsed.v.alt = PyStr(<<REF[1]>>)
            /\ SameKeyAsStandard(REF \o rest, <<REF[1]>>)

C1_DeletionParsed ==
    /\ FullRow
    /\ line.row.REF.s = <<"A">>
    /\ line.row.ALT.s = <<"-", "T", "A">>
    /\ line.row.POS = PyStr(<<"1", "0">>)
    /\ line.row.REGION = PyStr(<<"c">>)
    /\ key(parsed.v) = <<"c", ",", "1", "0", ",", "A", "T", "A", ",", "A">>

\* C2: a tabular row whose ALT begins with '+' yields a Variant whose reference is
\* REF unchanged and whose alt is REF followed by the rest of ALT, with the key of
\* the standard-format Variant (REGION, POS, REF, REF + inserted bases).
C2_InsertionReconciled ==
    (FullRow /\ Marked("+")) =>
        LET REF == line.row.REF.s
            rest == SubSeq(line.row.ALT.s, 2, Len(line.row.ALT.s))
        IN  /\ parsed.state = "variant"
            /\ parsed.v.reference = PyStr(REF)
            /\ parsed.v.alt = PyStr(REF \o rest)
            /\ SameKeyAsStandard(REF, REF \o rest)

C2_InsertionParsed ==
    /\ FullRow
    /\ line.row.REF.s = <<"A">>
    /\ line.row.ALT.s = <<"+", "T", "T">>
    /\ line.row.POS = PyStr(<<"1">>)
    /\ line.row.REGION = PyStr(<<"c">>)
    /\ key(parsed.v) = <<"c", ",", "1", ",", "A", ",", "A", "T", "T">>

IsDigit(ch) == ch \in {"0", "1", "2", "3", "4", "5", "6", "7", "8", "9"}
DigitValue(ch) == CHOOSE d \in 0..9 : Digit(d) = ch

RECURSIVE DecimalValue(_)
DecimalValue(s) ==
    IF s = <<>> THEN 0
    ELSE 10 * DecimalValue(SubSeq(s, 1, Len(s) - 1)) + DigitValue(s[Len(s)])

\* The position a Variant's position field denotes: the number, for an int and
\* for a text of decimal digits.
Locus(p) ==
    IF p.t = "int" THEN PyInt(p.n)
    ELSE IF IsStr(p) /\ p.s # <<>> /\ \A k \in 1..Len(p.s) : IsDigit(p.s[k])
         THEN PyInt(DecimalValue(p.s))
         ELSE p

\* Two Variants are logically identical: one contig, one position, one reference,
\* one alt.
SameMutation(v, w) ==
    /\ v.contig = w.contig
    /\ Locus(v.position) = Locus(w.position)
    /\ v.reference = w.reference
    /\ v.alt = w.alt

\* The Variants the parsed one is compared with: a substitution A>T at each
\* position, as each parser reads it.
OtherVariants ==
    {IvarRow(AllCols, Row(r, p, <<"A">>, <<"T">>)).v : r \in Regions, p \in PosTexts}
        \cup {StandardVariant(<<"c">>, n, <<"A">>, <<"T">>) : n \in Positions}

\* C7: two Variants have equal keys if and only if their contig, position,
\* reference and alt are logically identical, whichever parser made them.
C7_KeyIffSameMutation ==
    parsed.state = "variant" =>
        \A w \in OtherVariants : (key(parsed.v) = key(w)) <=> SameMutation(parsed.v, w)

\* C9: every Variant a parser constructs has a non-empty reference and a
\* non-empty alt.
C9_AllelesNonEmpty ==
    parsed.state = "variant" =>
        /\ IsStr(parsed.v.reference) /\ parsed.v.reference.s # <<>>
        /\ IsStr(parsed.v.alt) /\ parsed.v.alt.s # <<>>

----------------------------------------------------------------------------
(* Claims about a run of main (Spec) *)

\* The loop has finished an iteration, whose input is inputs[idx].
Iterated == pc \in {"loop", "done"} /\ idx >= 1

\* C3: when reading a tabular file raises at any point, a missing column, a file
\* that cannot be opened or a malformed row after well-formed ones,
\* load_ivar_variants returns an empty sequence.
C3_FaultYieldsNoVariants ==
    (Iterated /\ parser = "ivar" /\ load_ivar_variants(inputs[idx].file).raised) =>
        variants = <<>>

MultiAllelic(file) ==
    file.kind = "vcf" /\ \E k \in 1..Len(file.records) : Len(file.records[k].alts) > 1

\* load_vcf has parsed the watchlist, or the last input, and the file holds a
\* record with more than one alternate allele.
ParsedMultiAllelic ==
    \/ pc # "start" /\ MultiAllelic(watchfile)
    \/ idx >= 1 /\ parser = "vcf" /\ MultiAllelic(inputs[idx].file)

\* C4 as claimed: a source with a multi-allelic record ends the run with a
\* non-zero status when it is parsed, and the run produces no data rows.
C4_MultiAllelicNoRows ==
    ParsedMultiAllelic => (pc = "exit" /\ status # 0 /\ Len(out) <= 1)

\* C4, amended: when load_vcf parses a source, the watchlist or an input, that
\* holds a record with more than one alternate allele, the run ends there with
\* status 1 and writes no row for that source or a later one; the rows written
\* for earlier inputs stay in the output.
C4_MultiAllelicStopsRun ==
    /\ [](ParsedMultiAllelic =>
            /\ pc = "exit"
            /\ status = 1
            /\ \A j \in 1..Len(out) : outSrc[j][1] < idx
            /\ ~ENABLED Next)
    /\ [][ParsedMultiAllelic' => out' = out]_vars

C4_ExitAfterRows ==
    /\ pc = "exit"
    /\ idx = 2
    /\ parser = "vcf"
    /\ MultiAllelic(inputs[2].file)
    /\ Len(out) > 1

\* The row main writes for a hit of variant v of the source at path.
HitRow(path, v) ==
    <<PyStr(Basename(path)),
      IF watch_dict[key(v)] = PyNone THEN PyStr(not_annotated) ELSE watch_dict[key(v)],
      v.contig, PyStr(Str(v.position)), v.reference, v.alt>>

\* C5: for every Variant parsed from an input, exactly one row is written if its
\* key is in the index and none otherwise; the row holds the source's base name,
\* the name the index stores for the key, or 'not annotated' when it stores
\* none, and the Variant's contig, position, reference and alt.
C5_OneRowPerHit ==
    Iterated =>
        /\ \A j \in 1..Len(out) :
               outSrc[j][1] = idx => outSrc[j][2] \in 1..Len(variants)
        /\ \A n \in 1..Len(variants) :
               LET rows == {j \in 1..Len(out) : outSrc[j] = <<idx, n>>}
               IN  IF key(variants[n]) \in DOMAIN watch_dict
                   THEN /\ Cardinality(rows) = 1
                        /\ \A j \in rows : out[j] = HitRow(inputs[idx].path, variants[n])
                   ELSE rows = {}

C5_HitUnnamedAndMiss ==
    /\ Iterated
    /\ \E n \in 1..Len(variants) :
           /\ key(variants[n]) \in DOMAIN watch_dict
           /\ watch_dict[key(variants[n])] = PyNone
    /\ \E n \in 1..Len(variants) :
           /\ key(variants[n]) \in DOMAIN watch_dict
           /\ watch_dict[key(variants[n])] # PyNone
    /\ \E n \in 1..Len(variants) : key(variants[n]) \notin DOMAIN watch_dict
    /\ \E j \in 1..Len(out) : out[j][2] = PyStr(not_annotated)

\* The Variants the loop got for input k.
ParsedVariants(k) ==
    IF IsTabularName(inputs[k].path)
    THEN load_ivar_variants(inputs[k].file).variants
    ELSE load_vcf(inputs[k].file).variants

\* The matches of the inputs whose rows are written: <<k, n>> for variant n of
\* input k, its key in the index.
Matches ==
    UNION {{<<k, n>> : n \in {m \in 1..Len(ParsedVariants(k)) :
                                 key(ParsedVariants(k)[m]) \in DOMAIN watch_dict}} :
           k \in {i \in 1..idx : pc = "exit" => i < idx}}

Before(a, b) == a[1] < b[1] \/ (a[1] = b[1] /\ a[2] < b[2])

IsPrefix(s, t) == Len(s) <= Len(t) /\ SubSeq(t, 1, Len(s)) = s

\* C6: the output is the header row followed by one data row per match, a match
\* of an earlier input, or of an earlier record of the same input, before a
\* later one; a row once written is never removed or moved.
C6_RowsInDiscoveryOrder ==
    /\ [](/\ pc \in {"loop", "done"} => out # <<>>
          /\ out # <<>> =>
                /\ out[1] = Header
                /\ {outSrc[j] : j \in 2..Len(out)} = Matches
                /\ Len(out) = 1 + Cardinality(Matches)
                /\ \A j \in 2..Len(out) :
                       out[j] = HitRow(inputs[outSrc[j][1]].path,
                                       ParsedVariants(outSrc[j][1])[outSrc[j][2]])
                /\ \A j, k \in 2..Len(out) : j < k => Before(outSrc[j], outSrc[k]))
    /\ [][IsPrefix(out, out')]_vars

C6_RowsOfTwoInputs ==
    /\ pc = "done"
    /\ Len(out) >= 4
    /\ outSrc[2][1] = 1
    /\ outSrc[3][1] = 1
    /\ outSrc[Len(out)][1] = 2
    /\ out[2] # out[3]

\* What main does with the inputs ins, one after the other: the data rows it
\* writes, and whether it dies.
RECURSIVE Run(_, _)
Run(wd, ins) ==
    IF ins = <<>> THEN [rows |-> <<>>, exit |-> FALSE]
    ELSE LET f == Head(ins)
             r == IF IsTabularName(f.path)
                  THEN TabularOutcome(load_ivar_variants(f.file))
                  ELSE load_vcf(f.file)
             rest == Run(wd, Tail(ins))
         IN  IF r.fatal THEN [rows |-> <<>>, exit |-> TRUE]
             ELSE [rows |-> Rows(MatchRows(f.path, r.variants, wd, 0)) \o rest.rows,
                   exit |-> rest.exit]

Without(s, k) == [j \in 1..(Len(s) - 1) |-> IF j < k THEN s[j] ELSE s[j + 1]]

\* Input k went to the tabular parser, which raised.
TabularFault(k) ==
    IsTabularName(inputs[k].path) /\ load_ivar_variants(inputs[k].file).raised

\* The positions of the rows of out written for an input other than k, in order.
RECURSIVE RowsNotOf(_, _)
RowsNotOf(k, j) ==
    IF j > Len(out) THEN <<>>
    ELSE (IF outSrc[j][1] \in {0, k} THEN <<>> ELSE <<out[j]>>) \o RowsNotOf(k, j + 1)

\* C8: a fault while reading a tabular input does not stop the run: the inputs
\* after it are processed, and the rows written for the other inputs are those of
\* a run without the faulty input.
C8_TabularFaultIsLocal ==
    \A k \in 1..idx :
        (pc # "start" /\ TabularFault(k)) =>
            LET ref == Run(watch_dict, Without(SubSeq(inputs, 1, idx), k))
            IN  /\ pc = "exit" => idx > k
                /\ (pc = "exit") = ref.exit
                /\ RowsNotOf(k, 1) = ref.rows

C8_RowsAfterFault ==
    /\ pc = "done"
    /\ idx = 2
    /\ TabularFault(1)
    /\ \E j \in 1..Len(out) : outSrc[j][1] = 2

EndsWith(s, suffix) ==
    Len(s) >= Len(suffix) /\ SubSeq(s, Len(s) - Len(suffix) + 1, Len(s)) = suffix

\* C10: an input goes to the tabular parser exactly when its name ends with
\* 'variants.tsv'; every other input goes to the standard-format parser.
C10_DispatchByNameSuffix ==
    idx >= 1 => (parser = "ivar" <=> EndsWith(inputs[idx].path, variants_tsv))

====
